---- MODULE Spec2Model ----
(***************************************************************************)
(* Model of the flexible frame generator, src/framing/src/flexframegen.c.  *)
(*                                                                         *)
(* The state is one flexframegen object (fg), the caller's output buffer   *)
(* of the last flexframegen_execute call (y), and a record of what the     *)
(* last call did.  Samples are float complex in the source; here a sample  *)
(* is the 4-tuple of the arguments of the expression that computes it.     *)
(* Memory the source leaves uninitialised (malloc, the grown part of a     *)
(* realloc) holds a value chosen from Garbage.                             *)
(***************************************************************************)
EXTENDS Integers, Sequences, FiniteSets, TLC

\* ------------------------------------------------------------------ bounds
MaxPayloadLen == 2
\* calls made on the object after flexframegen_create
MaxCalls == 2

\* -------------------------------------------------------- program constants
PnSequenceLen == 64
HeaderSymLen == 256
HeaderLen == 15
HeaderEncLen == 32
UserHeaderLen == 8
CrcLen == 11
\* value of the enumerator in liquid.h
MOD_BPSK == 2

\* ------------------------------------------------------------ input domains
\* <<rampup_len, phasing_len, rampdn_len>>
RampTriples == { <<16, 16, 16>>, <<0, 1, 2>> }
\* <<mod_scheme, mod_bps>>; a depth above 8 is accepted by setprops
ModPairs == { <<MOD_BPSK, 1>>, <<1, 3>>, <<MOD_BPSK, 16>> }
PayloadLens == 0..MaxPayloadLen
ByteVals == {0, 165}
Garbage == {0, 90}

MkProps(r, l, m) ==
    [ rampup_len |-> r[1], phasing_len |-> r[2], payload_len |-> l,
      mod_scheme |-> m[1], mod_bps |-> m[2], rampdn_len |-> r[3] ]

ValidProps == { MkProps(r, l, m) : r \in RampTriples, l \in PayloadLens, m \in ModPairs }
InvalidProps == { MkProps(<<0, 1, 2>>, l, <<1, 0>>) : l \in {0, MaxPayloadLen} }

flexframegenprops_default ==
    [ rampup_len |-> 16, phasing_len |-> 16, payload_len |-> 0,
      mod_scheme |-> MOD_BPSK, mod_bps |-> 1, rampdn_len |-> 16 ]

\* the properties given to flexframegen_create (NULL selects the default)
CreateProps ==
    { flexframegenprops_default,
      MkProps(<<0, 1, 2>>, 1, <<1, 3>>),
      MkProps(<<0, 1, 2>>, MaxPayloadLen, <<MOD_BPSK, 16>>) }

UserHeaders == { [i \in 1..UserHeaderLen |-> 0], [i \in 1..UserHeaderLen |-> 16 * i + 1] }
Payloads(len) == [1..len -> ByteVals]

\* ------------------------------------------------------------- arithmetic
\* every length of the model is far below 2^31, so unsigned int and int
\* arithmetic is plain integer arithmetic here
Abs(x) == IF x < 0 THEN -x ELSE x
Sgn(x) == IF x < 0 THEN -1 ELSE 1
\* C integer division (truncation toward zero) and its remainder
CQuot(a, b) == Sgn(a) * Sgn(b) * (Abs(a) \div Abs(b))
CRem(a, b) == a - b * CQuot(a, b)
Pow2(k) == IF k = 0 THEN 1 ELSE 2 ^ k
Bit(x, k) == (x \div Pow2(k)) % 2

RECURSIVE BitOr(_, _)
BitOr(a, b) ==
    IF a = 0 THEN b
    ELSE IF b = 0 THEN a
    ELSE (IF a % 2 = 1 \/ b % 2 = 1 THEN 1 ELSE 0) + 2 * BitOr(a \div 2, b \div 2)

RECURSIVE BitXor(_, _)
BitXor(a, b) ==
    IF a = 0 THEN b
    ELSE IF b = 0 THEN a
    ELSE ((a + b) % 2) + 2 * BitXor(a \div 2, b \div 2)

Fill(n, v) == [i \in 1..n |-> v]
GarbageSample(g) == <<"uninit", g, 0, 0>>


\* ------------------------------------------------ external collaborators
\* Black boxes of the design (sequence generator, checksum, scrambler, FEC
\* encoder, interleaver, modulator, bit repacking): modelled from their
\* documented contracts.

\* maximal-length sequence generator of order 6 (shift register x^6 + x^5 + 1
\* started at 1): the bits of its first 64 steps
msequence_bits ==
    << 0, 0, 0, 0, 1, 0, 0, 0, 0, 1, 1, 0, 0, 0, 1, 0,
      1, 0, 0, 1, 1, 1, 1, 0, 1, 0, 0, 0, 1, 1, 1, 0,
      0, 1, 0, 0, 1, 0, 1, 1, 0, 1, 1, 1, 0, 1, 1, 0,
      0, 1, 1, 0, 1, 0, 1, 0, 1, 1, 1, 1, 1, 1, 0, 0 >>
msequence_advance(k) == msequence_bits[k]

\* checksum over the first n bytes of a buffer: two running sums, the key is
\* 65536 * CrcSum2 + CrcSum1
RECURSIVE CrcSum1(_, _)
CrcSum1(data, n) == IF n = 0 THEN 1 ELSE (CrcSum1(data, n - 1) + data[n]) % 65521
RECURSIVE CrcSum2(_, _)
CrcSum2(data, n) == IF n = 0 THEN 0 ELSE (CrcSum2(data, n - 1) + CrcSum1(data, n)) % 32749
crc32_generate_key(data, n) == 65536 * CrcSum2(data, n) + CrcSum1(data, n)

\* self-inverse whitening: xor with a cyclic mask
ScrambleMask == <<180, 106, 139, 197>>
scramble_data(data, n) ==
    [i \in 1..Len(data) |->
        IF i <= n THEN BitXor(data[i], ScrambleMask[((i - 1) % 4) + 1]) ELSE data[i]]

\* Hamming(7,4): one 7-bit code word per 4-bit nibble, two bytes per input byte
hamming74(d) ==
    8 * d + 4 * ((Bit(d, 3) + Bit(d, 2) + Bit(d, 0)) % 2)
          + 2 * ((Bit(d, 3) + Bit(d, 1) + Bit(d, 0)) % 2)
          + ((Bit(d, 2) + Bit(d, 1) + Bit(d, 0)) % 2)
\* the 2*n bytes the encoder writes for n message bytes
fec_encode(n, msg) ==
    [j \in 1..(2 * n) |->
        LET b == msg[(j + 1) \div 2]
        IN  IF j % 2 = 1 THEN hamming74(b \div 16) ELSE hamming74(b % 16)]

\* block interleaver over 32 bytes: a fixed permutation of the block
interleaver_encode(blk) == [i \in 1..Len(blk) |-> blk[((5 * (i - 1) + 3) % Len(blk)) + 1]]

\* modulator: a modem is <<scheme, bits per symbol>>
modem_create(scheme, bps) == <<scheme, bps>>
modem_modulate(modem, sym) == <<"mod", modem[1], modem[2], sym>>

\* repack: the input bytes are one big-endian bit stream; consecutive groups
\* of out_bps bits, most significant first, the last one zero-padded on its
\* low-order bits; each symbol is stored in an unsigned char
StreamBit(bytes, k) ==
    IF k < 8 * Len(bytes) THEN Bit(bytes[(k \div 8) + 1], 7 - (k % 8)) ELSE 0
RECURSIVE SymbolValue(_, _, _, _)
SymbolValue(bytes, bps, j, t) ==
    IF t = bps THEN 0
    ELSE StreamBit(bytes, j * bps + t) * Pow2(bps - 1 - t) + SymbolValue(bytes, bps, j, t + 1)
repack_num_written(in_len, out_bps) ==
    ((8 * in_len) \div out_bps) + (IF (8 * in_len) % out_bps > 0 THEN 1 ELSE 0)
repack_bytes(bytes, in_len, out_bps) ==
    [j \in 1..repack_num_written(in_len, out_bps) |->
        SymbolValue(SubSeq(bytes, 1, in_len), out_bps, j - 1, 0) % 256]

\* --------------------------------------------------------------- memory
\* realloc(buf, n): the common prefix is kept, a grown part is uninitialised
Realloc(buf, n, g) ==
    IF n <= Len(buf) THEN SubSeq(buf, 1, n)
    ELSE buf \o Fill(n - Len(buf), g)

\* writing src over buf from index 0: the part inside the allocation
WriteFront(buf, src) ==
    [i \in 1..Len(buf) |-> IF i <= Len(src) THEN src[i] ELSE buf[i]]

\* ------------------------------------------------------ internal methods
\* Each method is an operator from the object to the object after the call.
\* A value used several times is passed as a parameter of a helper operator
\* (SetNumPayloadSymbols, SetFrameLen, ...), which keeps the definitions flat.

\* num_payload_symbols = quotient of div(8*payload_len, mod_bps), plus one if
\* there is a remainder
\* faulty variant: the remainder is dropped
PayloadSymbolsFloor(num, den) == CQuot(num, den)
PayloadSymbols(num, den) == CQuot(num, den) + (IF CRem(num, den) # 0 THEN 1 ELSE 0)
flexframegen_compute_payload_len(f) ==
    [f EXCEPT !.num_payload_symbols = PayloadSymbols(8 * f.props.payload_len, f.props.mod_bps)]

\* faulty variant: the 256 header samples are left out of the sum
FrameLenSumNoHeader(f) ==
    f.props.rampup_len + f.props.phasing_len + f.pnsequence_len
        + f.num_payload_symbols + f.props.rampdn_len
FrameLenSum(f) ==
    f.props.rampup_len + f.props.phasing_len + f.pnsequence_len
        + HeaderSymLen + f.num_payload_symbols + f.props.rampdn_len
SetFrameLen(f) == [f EXCEPT !.frame_len = FrameLenSum(f)]
flexframegen_compute_frame_len(f) == SetFrameLen(flexframegen_compute_payload_len(f))

\* faulty variants: a buffer is never shrunk; a buffer is always reallocated
NeedsReallocGrowOnly(numalloc, required) == numalloc < required
NeedsReallocAlways(numalloc, required) == TRUE
\* the test that guards each realloc
NeedsRealloc(numalloc, required) == numalloc # required

\* the three conditional reallocations, on an object whose lengths are computed
ReallocPayload(f, g) ==
    IF NeedsRealloc(f.payload_numalloc, f.props.payload_len)
    THEN [f EXCEPT !.payload = Realloc(@, f.props.payload_len, g),
                   !.payload_numalloc = f.props.payload_len,
                   !.re = @ \cup {"payload"}]
    ELSE f
ReallocPayloadSym(f, g) ==
    IF NeedsRealloc(f.payload_sym_numalloc, f.num_payload_symbols)
    THEN [f EXCEPT !.payload_sym = Realloc(@, f.num_payload_symbols, g),
                   !.payload_sym_numalloc = f.num_payload_symbols,
                   !.re = @ \cup {"payload_sym"}]
    ELSE f
ReallocPayloadSamples(f, g) ==
    IF NeedsRealloc(f.payload_samples_numalloc, f.num_payload_symbols)
    THEN [f EXCEPT !.payload_samples = Realloc(@, f.num_payload_symbols, GarbageSample(g)),
                   !.payload_samples_numalloc = f.num_payload_symbols,
                   !.re = @ \cup {"payload_samples"}]
    ELSE f

\* the field re of the object is not a field of the source: it collects the
\* names of the buffers reallocated since it was last emptied
flexframegen_configure_payload_buffers(f, g) ==
    ReallocPayloadSamples(
        ReallocPayloadSym(
            ReallocPayload(flexframegen_compute_frame_len(f), g), g), g)

\* setprops after the depth test: copy, new modem, lengths, buffers
CopyProps(f, p) ==
    [f EXCEPT !.props = p, !.mod_payload = modem_create(p.mod_scheme, p.mod_bps)]
ApplyProps(f, p, g) ==
    flexframegen_configure_payload_buffers(
        flexframegen_compute_frame_len(flexframegen_compute_payload_len(CopyProps(f, p))), g)

\* faulty variant: the properties are copied before the depth is tested
flexframegen_setprops_copy_first(f, p, g) ==
    IF p.mod_bps = 0
    THEN [CopyProps(f, p) EXCEPT !.exited = TRUE]
    ELSE ApplyProps(f, p, g)
\* the field exited of the object is not a field of the source: exit(1) was called
flexframegen_setprops(f, p, g) ==
    IF p.mod_bps = 0
    THEN [f EXCEPT !.exited = TRUE]
    ELSE ApplyProps(f, p, g)

flexframegen_getframelen(f) == f.frame_len

\* the object as create has it before it applies the properties
NewObject(g) ==
    [ pn_sequence |-> [i \in 1..PnSequenceLen |-> <<"pn", msequence_advance(i), 0, 0>>],
      pnsequence_len |-> PnSequenceLen,
      mod_header |-> modem_create(MOD_BPSK, 1),
      header |-> Fill(HeaderLen, g),
      header_enc |-> Fill(HeaderEncLen, g),
      header_sym |-> Fill(HeaderSymLen, g),
      header_samples |-> Fill(HeaderSymLen, GarbageSample(g)),
      mod_payload |-> modem_create(MOD_BPSK, 1),
      payload |-> Fill(1, g),
      payload_sym |-> Fill(1, g),
      payload_samples |-> Fill(1, GarbageSample(g)),
      payload_numalloc |-> 1,
      payload_sym_numalloc |-> 1,
      payload_samples_numalloc |-> 1,
      props |-> MkProps(<<g, g, g>>, g, <<g, g>>),
      num_payload_symbols |-> g,
      frame_len |-> g,
      raw_header |-> <<>>,
      at_repack |-> <<>>,
      re |-> {},
      exited |-> FALSE ]

flexframegen_create(p, g) ==
    flexframegen_configure_payload_buffers(flexframegen_setprops(NewObject(g), p, g), g)

\* ------------------------------------------------------------- the header
\* bytes 8..10 of the raw header: payload length and scheme/depth
HeaderFields(f) ==
    [f EXCEPT !.header[9] = (f.props.payload_len \div 256) % 256,
              !.header[10] = f.props.payload_len % 256,
              !.header[11] = ((16 * f.props.mod_scheme) % 256) + (f.props.mod_bps % 16)]
KeyBytes(h, key) ==
    [h EXCEPT ![12] = (key \div 16777216) % 256,
              ![13] = (key \div 65536) % 256,
              ![14] = (key \div 256) % 256,
              ![15] = key % 256]
HeaderCrc(f) == [f EXCEPT !.header = KeyBytes(@, crc32_generate_key(@, CrcLen))]
\* the raw 15-byte header: 8 user bytes, payload length, scheme/depth, checksum;
\* it is kept in raw_header (not a field of the source) for inspection
RawHeader(f) == HeaderCrc(HeaderFields(f))
KeepRaw(f) == [f EXCEPT !.raw_header = f.header]

Scramble(f) == [f EXCEPT !.header = scramble_data(@, HeaderLen)]
\* the Hamming(7,4) encoder writes 30 bytes; the two filler bytes are appended
\* in the build that compiles lines 341-345 (no libfec, or Hamming(7,4) forced),
\* which is the build modelled here
Encode(f) ==
    [f EXCEPT !.header_enc =
        [WriteFront(@, fec_encode(HeaderLen, f.header)) EXCEPT ![31] = 167, ![32] = 158]]
Interleave(f) == [f EXCEPT !.header_enc = interleaver_encode(@)]

flexframegen_encode_header(f) == Interleave(Encode(Scramble(KeepRaw(RawHeader(f)))))

UnpackHeader(f) ==
    [f EXCEPT !.header_sym =
        [k \in 1..HeaderSymLen |-> Bit(f.header_enc[((k - 1) \div 8) + 1], 7 - ((k - 1) % 8))]]
ModulateHeaderSyms(f) ==
    [f EXCEPT !.header_samples =
        [k \in 1..HeaderSymLen |-> modem_modulate(f.mod_header, f.header_sym[k])]]
flexframegen_modulate_header(f) == ModulateHeaderSyms(UnpackHeader(f))

\* ------------------------------------------------------------ the payload
\* the number of bytes of payload_sym that memset sets to zero
ClearLen(f) == f.props.payload_len

\* at_repack (not a field of the source) is payload_sym as repack_bytes finds it
ClearSym(f) == [f EXCEPT !.payload_sym = WriteFront(@, Fill(ClearLen(f), 0))]
KeepAtRepack(f) == [f EXCEPT !.at_repack = f.payload_sym]
Repack(f) ==
    [f EXCEPT !.payload_sym =
        WriteFront(@, repack_bytes(f.payload, f.props.payload_len, f.props.mod_bps))]
ModulatePayloadSyms(f) ==
    [f EXCEPT !.payload_samples =
        WriteFront(@, [i \in 1..f.num_payload_symbols |->
                          modem_modulate(f.mod_payload, f.payload_sym[i])])]
flexframegen_modulate_payload(f) == ModulatePayloadSyms(Repack(KeepAtRepack(ClearSym(f))))

\* --------------------------------------------------------------- execute
\* faulty variant: the last user header byte is not copied
HeaderCopyLenShort == UserHeaderLen - 1
\* the number of user header bytes copied into the object
HeaderCopyLen == UserHeaderLen

CopyHeader(f, hdr) == [f EXCEPT !.header = WriteFront(@, SubSeq(hdr, 1, HeaderCopyLen))]
CopyPayload(f, pl) == [f EXCEPT !.payload = WriteFront(@, SubSeq(pl, 1, f.props.payload_len))]

\* faulty variant: the header is written before the sync sequence
WriteOrderHeaderFirst == <<"rampup", "phasing", "header", "pn", "payload", "rampdn">>
\* the order in which execute writes the segments of the frame
WriteOrder == <<"rampup", "phasing", "pn", "header", "payload", "rampdn">>

SegLen(f, seg) ==
    CASE seg = "rampup"  -> f.props.rampup_len
      [] seg = "phasing" -> f.props.phasing_len
      [] seg = "pn"      -> PnSequenceLen
      [] seg = "header"  -> HeaderSymLen
      [] seg = "payload" -> f.num_payload_symbols
      [] seg = "rampdn"  -> f.props.rampdn_len

\* the sample written as the i-th of its segment, at output index n
SegVal(f, seg, i, n) ==
    CASE seg = "rampup"  -> <<"rampup", n % 2, i, f.props.rampup_len>>
      [] seg = "phasing" -> <<"phasing", n % 2, 0, 0>>
      [] seg = "pn"      -> f.pn_sequence[i + 1]
      [] seg = "header"  -> f.header_samples[i + 1]
      [] seg = "payload" -> f.payload_samples[i + 1]
      [] seg = "rampdn"  -> <<"rampdn", i % 2, i, f.props.rampup_len>>

\* the value of the write index n before the k-th segment is written
RECURSIVE SegStart(_, _)
SegStart(f, k) ==
    IF k = 1 THEN 0 ELSE SegStart(f, k - 1) + SegLen(f, WriteOrder[k - 1])

\* the segments written, in order, each with the index of its first sample
\* and its length
Segments(f) ==
    [k \in 1..Len(WriteOrder) |->
        [ seg |-> WriteOrder[k], start |-> SegStart(f, k), len |-> SegLen(f, WriteOrder[k]) ]]

\* the last segment that writes output index i (0 if none does)
LastWriter(sg, i) ==
    IF \E k \in 1..Len(sg) : sg[k].start <= i /\ i < sg[k].start + sg[k].len
    THEN CHOOSE k \in 1..Len(sg) :
            /\ sg[k].start <= i /\ i < sg[k].start + sg[k].len
            /\ \A j \in (k + 1)..Len(sg) : ~(sg[j].start <= i /\ i < sg[j].start + sg[j].len)
    ELSE 0

Sample(f, sg, k, i, old) ==
    IF k = 0 THEN old ELSE SegVal(f, sg[k].seg, i - sg[k].start, i)

\* the caller's buffer after the writes of execute
Output(f, sg, yold) ==
    [i \in 1..Len(yold) |-> Sample(f, sg, LastWriter(sg, i - 1), i - 1, yold[i])]

\* the object after the header and the payload are copied in and encoded
Encoded(f, hdr, pl) ==
    flexframegen_modulate_payload(
        CopyPayload(
            flexframegen_modulate_header(flexframegen_encode_header(CopyHeader(f, hdr))), pl))

\* result: the object, the output buffer, the segments written, the final write
\* index, and the number of bytes or samples written from the start of each
\* payload buffer (the copy into payload, the memset of payload_sym, the
\* samples of payload_samples); what a write past the end of an allocation
\* overwrites is not modelled
ExecuteResult(f, yold) ==
    [ fg |-> f,
      y |-> Output(f, Segments(f), yold),
      segs |-> Segments(f),
      n |-> SegStart(f, Len(WriteOrder) + 1),
      wr |-> [ payload |-> f.props.payload_len,
               payload_sym |-> ClearLen(f),
               payload_samples |-> f.num_payload_symbols ] ]

flexframegen_execute(f, hdr, pl, yold) == ExecuteResult(Encoded(f, hdr, pl), yold)

\* ------------------------------------------------------------------ state
VARIABLES
    fg,       \* the flexframegen object
    y,        \* the caller's output buffer of the last execute call
    alive,    \* FALSE once exit(1) has been called
    call,     \* the last call and its arguments
    reallocs, \* the buffers the last create or setprops call reallocated
    exec,     \* what the last execute call did
    ncalls    \* the number of calls made after create

vars == <<fg, y, alive, call, reallocs, exec, ncalls>>

NoHeader == [i \in 1..UserHeaderLen |-> 0]
Unwritten == <<"unwritten", 0, 0, 0>>
NoExec ==
    [ segs |-> <<>>, n |-> 0, wr |-> [payload |-> 0, payload_sym |-> 0, payload_samples |-> 0] ]
\* a call: its name, the properties stored when it was made, the properties
\* passed (setprops, create) or in force (execute), the user header, the payload
Call(op, old, p, h, pl) == [ op |-> op, old |-> old, props |-> p, header |-> h, payload |-> pl ]

\* the state after flexframegen_create(props) returns (NULL selects the default)
Init ==
    \E p \in CreateProps, g \in Garbage :
        /\ fg = [flexframegen_create(p, g) EXCEPT !.re = {}]
        /\ y = <<>>
        /\ alive = TRUE
        /\ call = Call("create", p, p, NoHeader, <<>>)
        /\ reallocs = {}
        /\ exec = NoExec
        /\ ncalls = 0

SetPropsDone(r, p) ==
    /\ fg' = [r EXCEPT !.re = {}, !.exited = FALSE]
    /\ alive' = ~r.exited
    /\ reallocs' = r.re
    /\ call' = Call("setprops", fg.props, p, NoHeader, <<>>)
    /\ ncalls' = ncalls + 1
    /\ UNCHANGED <<y, exec>>

SetProps(p, g) ==
    /\ alive
    /\ ncalls < MaxCalls
    /\ SetPropsDone(flexframegen_setprops(fg, p, g), p)

ExecuteDone(r, hdr, pl) ==
    /\ fg' = r.fg
    /\ y' = r.y
    /\ exec' = [ segs |-> r.segs, n |-> r.n, wr |-> r.wr ]
    /\ call' = Call("execute", fg.props, fg.props, hdr, pl)
    /\ reallocs' = {}
    /\ ncalls' = ncalls + 1
    /\ UNCHANGED alive

Execute(hdr, pl) ==
    /\ alive
    /\ ncalls < MaxCalls
    /\ ExecuteDone(flexframegen_execute(fg, hdr, pl, Fill(fg.frame_len, Unwritten)), hdr, pl)

Next ==
    \/ \E p \in ValidProps \cup InvalidProps, g \in Garbage : SetProps(p, g)
    \/ \E hdr \in UserHeaders, pl \in Payloads(fg.props.payload_len) : Execute(hdr, pl)

Spec == Init /\ [][Next]_vars


\* ----------------------------------------------------------------- claims
Executed == call.op = "execute"
CeilDiv(a, b) == (a + b - 1) \div b
RECURSIVE SumLens(_, _)
SumLens(sg, k) == IF k = 0 THEN 0 ELSE SumLens(sg, k - 1) + sg[k].len

\* C1: every execute call writes exactly flexframegen_getframelen() samples:
\* the write index n equals frame_len at the final assertion, also when
\* payload_len = 0.
C1_ExecuteWritesFrameLen ==
    Executed =>
        /\ exec.n = flexframegen_getframelen(fg)
        /\ SumLens(exec.segs, Len(exec.segs)) = flexframegen_getframelen(fg)
C1_Witness ==
    /\ Executed /\ ncalls = 2
    /\ fg.props.payload_len = 0 /\ fg.num_payload_symbols = 0
    /\ exec.n = 323

C3_DepthZeroRejected ==
    [][(call'.op = "setprops" /\ call'.props.mod_bps = 0)
          => /\ ~alive'
             /\ fg' = fg
             /\ flexframegen_getframelen(fg') = flexframegen_getframelen(fg)]_vars
C3_Witness ==
    /\ ~alive /\ call.op = "setprops" /\ call.props.mod_bps = 0
    /\ ncalls = 2 /\ fg.props.mod_bps = 16

\* C4: execute writes ramp-up, phasing, the 64 sync samples, the 256 header
\* samples, the payload symbols and ramp-down in this order, each segment
\* starting at the sum of the lengths before it; every index below frame_len
\* is written exactly once.
C4_SegmentOrder ==
    Executed =>
        /\ exec.segs =
            << [seg |-> "rampup", start |-> 0, len |-> fg.props.rampup_len],
               [seg |-> "phasing", start |-> fg.props.rampup_len, len |-> fg.props.phasing_len],
               [seg |-> "pn", start |-> fg.props.rampup_len + fg.props.phasing_len, len |-> 64],
               [seg |-> "header", start |-> fg.props.rampup_len + fg.props.phasing_len + 64,
                len |-> 256],
               [seg |-> "payload", start |-> fg.props.rampup_len + fg.props.phasing_len + 320,
                len |-> fg.num_payload_symbols],
               [seg |-> "rampdn",
                start |-> fg.props.rampup_len + fg.props.phasing_len + 320
                            + fg.num_payload_symbols,
                len |-> fg.props.rampdn_len] >>
        /\ \A i \in 0..(fg.frame_len - 1) :
              /\ Cardinality({k \in 1..Len(exec.segs) :
                    exec.segs[k].start <= i /\ i < exec.segs[k].start + exec.segs[k].len}) = 1
              /\ y[i + 1] # Unwritten
        /\ Len(y) = fg.frame_len
C4_Witness ==
    /\ Executed
    /\ fg.props.rampup_len = 16 /\ fg.props.mod_bps = 1 /\ fg.props.payload_len = 2
    /\ exec.segs[5].start = 352 /\ exec.segs[5].len = 16 /\ exec.segs[6].start = 368

\* C5: the raw header of every execute call holds payload_len in bytes 8-9
\* (big-endian) and (mod_scheme << 4) | mod_bps in byte 10.
C5_HeaderDescribesConfig ==
    Executed =>
        /\ 256 * fg.raw_header[9] + fg.raw_header[10] = fg.props.payload_len
        /\ fg.raw_header[11] = BitOr(16 * fg.props.mod_scheme, fg.props.mod_bps)

\* C6: after create and after every setprops each payload buffer is at least
\* as large as required and its allocated-size field equals the required size.
C6_BuffersSized ==
    /\ Len(fg.payload) >= fg.props.payload_len
    /\ Len(fg.payload_sym) >= fg.num_payload_symbols
    /\ Len(fg.payload_samples) >= fg.num_payload_symbols
    /\ fg.payload_numalloc = fg.props.payload_len
    /\ fg.payload_sym_numalloc = fg.num_payload_symbols
    /\ fg.payload_samples_numalloc = fg.num_payload_symbols
C6_Witness ==
    /\ call.op = "setprops" /\ alive
    /\ reallocs = {"payload", "payload_sym", "payload_samples"}
    /\ call.old.payload_len = 2 /\ fg.payload_numalloc = 1 /\ fg.payload_sym_numalloc = 8

\* C7: a setprops call with the property values already stored reallocates no
\* buffer and leaves the allocated sizes, num_payload_symbols and frame_len
\* unchanged.
C7_SetpropsIdempotent ==
    [][(call'.op = "setprops" /\ call'.props = fg.props)
          => /\ reallocs' = {}
             /\ fg'.payload = fg.payload
             /\ fg'.payload_sym = fg.payload_sym
             /\ fg'.payload_samples = fg.payload_samples
             /\ fg'.payload_numalloc = fg.payload_numalloc
             /\ fg'.payload_sym_numalloc = fg.payload_sym_numalloc
             /\ fg'.payload_samples_numalloc = fg.payload_samples_numalloc
             /\ fg'.num_payload_symbols = fg.num_payload_symbols
             /\ fg'.frame_len = fg.frame_len]_vars
C7_Witness ==
    /\ call.op = "setprops" /\ alive /\ ncalls = 2
    /\ call.old = call.props
    /\ fg.props.payload_len = 2 /\ fg.payload_sym_numalloc = 16
    /\ reallocs = {}

C9_SymClearedAtRepack ==
    Executed => \A i \in 1..Len(fg.at_repack) : fg.at_repack[i] = 0

\* C10: during execute the copy into payload, the memset of payload_sym and
\* the writes to payload_samples stay inside the allocations.
C10_WritesInBounds ==
    Executed =>
        /\ exec.wr.payload <= fg.payload_numalloc
        /\ exec.wr.payload_sym <= fg.payload_sym_numalloc
        /\ exec.wr.payload_samples <= fg.payload_samples_numalloc

====
